---------------------------- MODULE Spec2Model ----------------------------
(***************************************************************************)
(* endianrw: endian-aware conversion of fixed-width primitive values to    *)
(* and from byte buffers (ByteTransform), and the stream extensions        *)
(* read_as / write_as built on it (src/lib.rs).                            *)
(*                                                                         *)
(* A primitive value is modelled as its type and its bit pattern, the bit  *)
(* pattern being the sequence of its bytes by significance: bits[1] is the *)
(* least significant byte, bits[n] the most significant one.  A buffer is  *)
(* the sequence of bytes in memory order: buf[1] is the byte at offset 0.  *)
(* The byte order of the machine the crate is built for (target_endian)    *)
(* is the variable host, chosen once when a behaviour starts.              *)
(***************************************************************************)
EXTENDS Integers, Sequences, FiniteSets, TLC

VARIABLES host, codec, src, snk, last, prevRead, sumOk, allOk, writes

vars == <<host, codec, src, snk, last, prevRead, sumOk, allOk, writes>>

(***************************************************************************)
(* Bounds of the model.                                                    *)
(***************************************************************************)
\* how many of ByteSamples the codec's inputs are built from
NumBytes == 3
\* how many bytes the modelled source holds
SrcLen == 10
\* the largest room a modelled fixed-capacity sink starts with
SinkCap == 9
\* how many calls of the collaborator have a scripted response
MaxScript == 1
\* how many write_as calls are made on one sink
MaxWrites == 2

(***************************************************************************)
(* Types, byte orders and the type/size table.                             *)
(***************************************************************************)
BigEndian == "BigEndian"
LittleEndian == "LittleEndian"
ByteOrders == {BigEndian, LittleEndian}
Hosts == {"little", "big"}

IntTypes == {"u8", "u16", "u32", "u64", "i8", "i16", "i32", "i64"}
FloatTypes == {"f32", "f64"}
Types == IntTypes \cup FloatTypes
SignedTypes == {"i8", "i16", "i32", "i64"}

\* impl_bytetransform!($byteorder, <type>, <size>, $convertfn)
typesize(t) ==
    CASE t \in {"u8", "i8"} -> 1
      [] t \in {"u16", "i16"} -> 2
      [] t \in {"u32", "i32", "f32"} -> 4
      [] t \in {"u64", "i64", "f64"} -> 8

\* the fifth macro argument: the integer type a float is transmuted to
convertas(t) ==
    CASE t = "f32" -> "u32"
      [] t = "f64" -> "u64"

\* the two macro invocations with their conversion functions exchanged
convertfn_exchanged(e) == IF e = LittleEndian THEN "to_be" ELSE "to_le"

\* impl_bytetransform!(LittleEndian, to_le); impl_bytetransform!(BigEndian, to_be);
convertfn(e) == IF e = LittleEndian THEN "to_le" ELSE "to_be"

Reverse(s) == [i \in 1..Len(s) |-> s[Len(s) + 1 - i]]

(***************************************************************************)
(* The primitives the macro bodies are written with.                       *)
(***************************************************************************)
\* core: swap_bytes reverses the bytes of an integer
swap_bytes(h, v) == [ty |-> v.ty, bits |-> Reverse(v.bits)]

\* core: to_le is the identity on a little-endian target, swap_bytes otherwise
to_le(h, v) == IF h = "little" THEN v ELSE swap_bytes(h, v)

\* core: to_be is the identity on a big-endian target, swap_bytes otherwise
to_be(h, v) == IF h = "big" THEN v ELSE swap_bytes(h, v)

\* val.$convertfn()
convert(h, e, v) == IF convertfn(e) = "to_le" THEN to_le(h, v) ELSE to_be(h, v)

\* transmute::<_, $typename>(buf): the bytes of memory read as an integer of
\* the host: offset 0 is the least significant byte on a little-endian host
\* and the most significant byte on a big-endian one
transmute_buf(h, t, buf) ==
    [ty |-> t, bits |-> IF h = "little" THEN buf ELSE Reverse(buf)]

\* transmute(val) to Self::Buffer: the integer's bytes as the host stores them
transmute_val(h, v) == IF h = "little" THEN v.bits ELSE Reverse(v.bits)

\* transmute between a float and the integer of its width: the same bits
transmute_bits(t, v) == [ty |-> t, bits |-> v.bits]

(***************************************************************************)
(* ByteTransform: buffer, from_bytes, to_bytes.                            *)
(***************************************************************************)
\* fn buffer() -> Self::Buffer { [0; $typesize] }
buffer(t) == [i \in 1..typesize(t) |-> 0]

from_bytes_int(h, e, t, buf) == convert(h, e, transmute_buf(h, t, buf))

\* the float decoder without the call of $convertfn
from_bytes_float_unconverted(h, e, t, buf) ==
    transmute_bits(t, transmute_buf(h, convertas(t), buf))

from_bytes_float(h, e, t, buf) ==
    transmute_bits(t, convert(h, e, transmute_buf(h, convertas(t), buf)))

from_bytes(h, e, t, buf) ==
    IF t \in FloatTypes THEN from_bytes_float(h, e, t, buf)
    ELSE from_bytes_int(h, e, t, buf)

to_bytes_int(h, e, v) == transmute_val(h, convert(h, e, v))

to_bytes_float(h, e, v) ==
    transmute_val(h, convert(h, e, transmute_bits(convertas(v.ty), v)))

\* the encoder without the call of $convertfn: the host's own byte order
to_bytes_unconverted(h, e, v) == transmute_val(h, v)

to_bytes(h, e, v) ==
    IF v.ty \in FloatTypes THEN to_bytes_float(h, e, v)
    ELSE to_bytes_int(h, e, v)


(***************************************************************************)
(* The numeric value of a primitive integer, as Rust reads its bits:       *)
(* unsigned types as the base-256 numeral, signed types in two's           *)
(* complement.  The model checker's integers are 32 bits wide, so the      *)
(* value is computed for the widths and bit patterns that fit.             *)
(***************************************************************************)
RECURSIVE Pow256(_)
Pow256(k) == IF k = 0 THEN 1 ELSE 256 * Pow256(k - 1)

RECURSIVE SumDigits(_, _)
SumDigits(bits, k) ==
    IF k = 0 THEN 0 ELSE bits[k] * Pow256(k - 1) + SumDigits(bits, k - 1)

Fits(t, top) ==
    \/ typesize(t) <= 2
    \/ typesize(t) = 4 /\ (t \in SignedTypes \/ top < 128)

IsNegative(v) == v.ty \in SignedTypes /\ v.bits[Len(v.bits)] >= 128

IntValue(v) ==
    LET n == Len(v.bits)
    IN  IF IsNegative(v)
        THEN (v.bits[n] - 256) * Pow256(n - 1) + SumDigits(v.bits, n - 1)
        ELSE SumDigits(v.bits, n)

(***************************************************************************)
(* The inputs of the codec: every buffer over a few sample bytes, and the  *)
(* test's array.                                                           *)
(***************************************************************************)
\* let expected = [0x11, 0x22, 0x33, 0x44, 0x55, 0x66, 0x77, 0x88];
expected == <<17, 34, 51, 68, 85, 102, 119, 136>>

ByteSamples == <<128, 1, 255, 127, 0>>
SampleSet == {ByteSamples[i] : i \in 1..NumBytes}

CodecBuffers(n) == [1..n -> SampleSet] \cup {SubSeq(expected, 1, n)}

Idle == [step |-> "idle"]

(***************************************************************************)
(* The codec's operations, applied to every input.                         *)
(***************************************************************************)
\* B::from_bytes(buf)
FromBytes ==
    /\ codec.step = "idle"
    /\ \E e \in ByteOrders, t \in Types :
         \E b \in CodecBuffers(typesize(t)) :
            codec' = [step |-> "decoded", e |-> e, t |-> t, buf |-> b,
                      val |-> from_bytes(host, e, t, b)]
    /\ UNCHANGED <<host, src, snk, last, prevRead, sumOk, allOk, writes>>

\* B::to_bytes(val)
ToBytes ==
    /\ codec.step = "idle"
    /\ \E e \in ByteOrders, t \in Types :
         \E b \in CodecBuffers(typesize(t)) :
            LET v == [ty |-> t, bits |-> b]
            IN  codec' = [step |-> "encoded", e |-> e, t |-> t, val |-> v,
                          buf |-> to_bytes(host, e, v)]
    /\ UNCHANGED <<host, src, snk, last, prevRead, sumOk, allOk, writes>>

\* B::from_bytes(B::to_bytes(val))
FromBytesBack ==
    /\ codec.step = "encoded"
    /\ codec' = [step |-> "round", e |-> codec.e, t |-> codec.t,
                 val |-> codec.val, buf |-> codec.buf,
                 back |-> from_bytes(host, codec.e, codec.t, codec.buf)]
    /\ UNCHANGED <<host, src, snk, last, prevRead, sumOk, allOk, writes>>

NoCall == [op |-> "none"]

InitCodec ==
    /\ host \in Hosts
    /\ codec = Idle
    /\ src = [pos |-> 0, len |-> 0]
    /\ snk = [out |-> <<>>, cap |-> 0]
    /\ last = NoCall
    /\ prevRead = NoCall
    /\ sumOk = [read_as |-> 0, write_as |-> 0]
    /\ allOk = [read_as |-> TRUE, write_as |-> TRUE]
    /\ writes = 0

NextCodec == FromBytes \/ ToBytes \/ FromBytesBack

SpecCodec == InitCodec /\ [][NextCodec]_vars


(***************************************************************************)
(* What the codec's claims are stated with.                                *)
(***************************************************************************)
\* the number written with the bytes s, most significant byte first; a
\* signed reading gives the first byte its two's-complement weight
RECURSIVE Horner(_)
Horner(s) ==
    IF s = <<>> THEN 0
    ELSE Horner(SubSeq(s, 1, Len(s) - 1)) * 256 + s[Len(s)]

Reading(s, signed) ==
    IF signed /\ s[1] >= 128
    THEN Horner([i \in 1..Len(s) |-> IF i = 1 THEN s[1] - 256 ELSE s[i]])
    ELSE Horner(s)

\* the buffer's bytes from the most significant one, as the byte order names them
MsbFirst(e, b) == IF e = BigEndian THEN b ELSE Reverse(b)

\* run_test!(TYPE, SIZE, VALUE_IF_ARRAY_BIG_ENDIAN, VALUE_IF_ARRAY_LITTLE_ENDIAN)
TestValue(t, e) ==
    CASE t \in {"u8", "i8"} -> 17
      [] t \in {"u16", "i16"} -> IF e = BigEndian THEN 4386 ELSE 8721
      [] t \in {"u32", "i32"} -> IF e = BigEndian THEN 287454020 ELSE 1144201745

\* C1: encoding a value and decoding the bytes gives the value back, for each
\* of the 10 types (the floats as their bit patterns) and both byte orders.
C1_RoundTrip ==
    codec.step = "round" =>
        /\ codec.back = codec.val
        /\ Len(codec.buf) = typesize(codec.t)

C1_Witness ==
    /\ codec.step = "round"
    /\ codec.t = "f64"
    /\ codec.e = BigEndian
    /\ host = "little"
    /\ codec.val.bits = expected
    /\ codec.buf = Reverse(expected)
    /\ codec.back = codec.val

\* C2: from_bytes of an integer type reads b[0] as the most significant byte
\* under BigEndian and as the least significant byte under LittleEndian, on
\* either host; signed types read the bytes in two's complement; the 1-byte
\* types decode alike under both byte orders; the test's values come out.
C2_IntegerByteOrder ==
    (codec.step = "decoded" /\ codec.t \in IntTypes) =>
        LET n == typesize(codec.t)
            b == codec.buf
            v == codec.val
        IN  /\ v.ty = codec.t
            /\ Len(v.bits) = n
            /\ codec.e = BigEndian =>
                   \A i \in 1..n : v.bits[n + 1 - i] = b[i]
            /\ codec.e = LittleEndian =>
                   \A i \in 1..n : v.bits[i] = b[i]
            /\ Fits(codec.t, v.bits[n]) =>
                   IntValue(v) =
                       Reading(MsbFirst(codec.e, b), codec.t \in SignedTypes)
            /\ IsNegative(v) <=>
                   (codec.t \in SignedTypes /\ MsbFirst(codec.e, b)[1] >= 128)
            /\ n = 1 =>
                   from_bytes(host, BigEndian, codec.t, b) =
                       from_bytes(host, LittleEndian, codec.t, b)
            /\ (b = SubSeq(expected, 1, n) /\ n <= 4) =>
                   IntValue(v) = TestValue(codec.t, codec.e)

C2_Witness ==
    /\ codec.step = "decoded"
    /\ codec.t = "i64"
    /\ codec.e = LittleEndian
    /\ host = "big"
    /\ codec.buf = expected
    /\ codec.val.bits[8] = 136
    /\ codec.val.bits[1] = 17
    /\ IsNegative(codec.val)

\* C3: a float is encoded and decoded as the unsigned integer of its width
\* holding its bit pattern, under the same byte order; every bit pattern is
\* kept as it is.
C3_FloatBits ==
    /\ (codec.step = "decoded" /\ codec.t \in FloatTypes) =>
           /\ codec.val.ty = codec.t
           /\ codec.val.bits =
                  from_bytes_int(host, codec.e, convertas(codec.t),
                                 codec.buf).bits
           /\ codec.val.bits = Reverse(MsbFirst(codec.e, codec.buf))
    /\ (codec.step = "encoded" /\ codec.t \in FloatTypes) =>
           /\ codec.buf =
                  to_bytes_int(host, codec.e,
                               [ty |-> convertas(codec.t),
                                bits |-> codec.val.bits])
           /\ MsbFirst(codec.e, codec.buf) = Reverse(codec.val.bits)

C3_Witness ==
    /\ codec.step = "decoded"
    /\ codec.t = "f32"
    /\ codec.e = BigEndian
    /\ host = "little"
    /\ codec.buf = <<1, 128, 128, 128>>
    /\ codec.val = [ty |-> "f32", bits |-> <<128, 128, 128, 1>>]


(***************************************************************************)
(* The collaborators: a byte source (io::Read) and a byte sink             *)
(* (io::Write).  What one call of read or write does is the collaborator's *)
(* choice; a script names the choice for each of the first calls of one     *)
(* read_as or write_as, and an unscripted call transfers all it can.       *)
(*   "all"   transfer as many bytes as the buffer and the stream allow     *)
(*   "one"   transfer a single byte (a partial read or write)              *)
(*   "intr"  fail with ErrorKind::Interrupted                              *)
(*   "fail"  fail with another error                                       *)
(***************************************************************************)
Responses == {"all", "one", "intr", "fail"}

\* a script ends with its last call that is not "all", and nothing is called
\* after a failure that is not an interruption
Scripts ==
    {s \in UNION {[1..k -> Responses] : k \in 0..MaxScript} :
        /\ Len(s) > 0 => s[Len(s)] # "all"
        /\ \A i \in 1..Len(s) : s[i] = "fail" => i = Len(s)}

Resp(script, i) == IF i <= Len(script) THEN script[i] ELSE "all"

NoErr == [kind |-> "", msg |-> ""]
Interrupted == [kind |-> "Interrupted", msg |-> "interrupted"]
DeviceFailure == [kind |-> "Other", msg |-> "device failure"]
\* io::Error::new(io::ErrorKind::Other, "could not read all bytes")
ShortRead == [kind |-> "Other", msg |-> "could not read all bytes"]
\* std: write_all's error when a write accepts nothing
WriteZero == [kind |-> "WriteZero", msg |-> "failed to write whole buffer"]

Min(a, b) == IF a <= b THEN a ELSE b

\* the bytes a source holds: the test's array, repeated to SrcLen bytes
srcData == [i \in 1..SrcLen |-> expected[((i - 1) % Len(expected)) + 1]]

\* self.read(buf): one call; Ok(m) places the next m bytes in buf[0..m]
read(s, buf, resp) ==
    LET m == IF resp = "one" THEN Min(1, Min(Len(buf), s.len - s.pos))
             ELSE Min(Len(buf), s.len - s.pos)
    IN  CASE resp = "intr" ->
               [ok |-> FALSE, n |-> 0, err |-> Interrupted, buf |-> buf,
                src |-> s]
          [] resp = "fail" ->
               [ok |-> FALSE, n |-> 0, err |-> DeviceFailure, buf |-> buf,
                src |-> s]
          [] OTHER ->
               [ok |-> TRUE, n |-> m, err |-> NoErr,
                buf |-> [i \in 1..Len(buf) |->
                            IF i <= m THEN srcData[s.pos + i] ELSE buf[i]],
                src |-> [pos |-> s.pos + m, len |-> s.len]]

\* self.write(buf): one call; Ok(m) appends buf[0..m] to the sink
write(k, buf, resp) ==
    LET m == IF resp = "one" THEN Min(1, Min(Len(buf), k.cap))
             ELSE Min(Len(buf), k.cap)
    IN  CASE resp = "intr" ->
               [ok |-> FALSE, n |-> 0, err |-> Interrupted, snk |-> k]
          [] resp = "fail" ->
               [ok |-> FALSE, n |-> 0, err |-> DeviceFailure, snk |-> k]
          [] OTHER ->
               [ok |-> TRUE, n |-> m, err |-> NoErr,
                snk |-> [out |-> k.out \o SubSeq(buf, 1, m),
                         cap |-> k.cap - m]]

\* what one call of the collaborator answered
Outcome(r) == [ok |-> r.ok, n |-> r.n, err |-> r.err]

NoVal == [ty |-> "none", bits |-> <<>>]

(***************************************************************************)
(* EndianReadExt::read_as                                                  *)
(***************************************************************************)
\* read_as with a second read for the bytes a short first read left out
read_as_retry(h, s, e, t, script) ==
    LET buf == buffer(t)
        r == read(s, buf, Resp(script, 1))
        q == read(r.src, SubSeq(r.buf, r.n + 1, Len(buf)), Resp(script, 2))
        both == <<Outcome(r), Outcome(q)>>
    IN  IF ~r.ok
        THEN [ok |-> FALSE, err |-> r.err, val |-> NoVal, src |-> r.src,
              outcomes |-> <<Outcome(r)>>]
        ELSE IF r.n = Len(buf)
        THEN [ok |-> TRUE, err |-> NoErr, val |-> from_bytes(h, e, t, r.buf),
              src |-> r.src, outcomes |-> <<Outcome(r)>>]
        ELSE IF ~q.ok
        THEN [ok |-> FALSE, err |-> q.err, val |-> NoVal, src |-> q.src,
              outcomes |-> both]
        ELSE IF r.n + q.n # Len(buf)
        THEN [ok |-> FALSE, err |-> ShortRead, val |-> NoVal, src |-> q.src,
              outcomes |-> both]
        ELSE [ok |-> TRUE, err |-> NoErr,
              val |-> from_bytes(h, e, t, SubSeq(r.buf, 1, r.n) \o q.buf),
              src |-> q.src, outcomes |-> both]

\* read_as without the comparison of read_len with the buffer's length
read_as_unchecked(h, s, e, t, script) ==
    LET buf == buffer(t)
        r == read(s, buf, Resp(script, 1))
    IN  IF ~r.ok
        THEN [ok |-> FALSE, err |-> r.err, val |-> NoVal, src |-> r.src,
              outcomes |-> <<Outcome(r)>>]
        ELSE [ok |-> TRUE, err |-> NoErr, val |-> from_bytes(h, e, t, r.buf),
              src |-> r.src, outcomes |-> <<Outcome(r)>>]

\* read_as that takes a failed read for a read of no bytes
read_as_unwrap_or(h, s, e, t, script) ==
    LET buf == buffer(t)
        r == read(s, buf, Resp(script, 1))
    IN  IF ~r.ok \/ r.n # Len(buf)
        THEN [ok |-> FALSE, err |-> ShortRead, val |-> NoVal, src |-> r.src,
              outcomes |-> <<Outcome(r)>>]
        ELSE [ok |-> TRUE, err |-> NoErr, val |-> from_bytes(h, e, t, r.buf),
              src |-> r.src, outcomes |-> <<Outcome(r)>>]

\* read_as that puts back the bytes of a short read
read_as_rewind(h, s, e, t, script) ==
    LET buf == buffer(t)
        r == read(s, buf, Resp(script, 1))
    IN  IF ~r.ok
        THEN [ok |-> FALSE, err |-> r.err, val |-> NoVal, src |-> r.src,
              outcomes |-> <<Outcome(r)>>]
        ELSE IF r.n # Len(buf)
        THEN [ok |-> FALSE, err |-> ShortRead, val |-> NoVal, src |-> s,
              outcomes |-> <<Outcome(r)>>]
        ELSE [ok |-> TRUE, err |-> NoErr, val |-> from_bytes(h, e, t, r.buf),
              src |-> r.src, outcomes |-> <<Outcome(r)>>]

read_as(h, s, e, t, script) ==
    LET buf == buffer(t)
        r == read(s, buf, Resp(script, 1))
    IN  IF ~r.ok
        THEN [ok |-> FALSE, err |-> r.err, val |-> NoVal, src |-> r.src,
              outcomes |-> <<Outcome(r)>>]
        ELSE IF r.n # Len(buf)
        THEN [ok |-> FALSE, err |-> ShortRead, val |-> NoVal, src |-> r.src,
              outcomes |-> <<Outcome(r)>>]
        ELSE [ok |-> TRUE, err |-> NoErr, val |-> from_bytes(h, e, t, r.buf),
              src |-> r.src, outcomes |-> <<Outcome(r)>>]

(***************************************************************************)
(* std's provided io::Write::write_all, which write_as calls: write until   *)
(* the buffer is empty, fail when a write accepts nothing, call again when *)
(* a write is interrupted, return any other error.                         *)
(***************************************************************************)
RECURSIVE write_all_from(_, _, _, _, _)
write_all_from(k, buf, script, i, outcomes) ==
    IF buf = <<>>
    THEN [ok |-> TRUE, err |-> NoErr, snk |-> k, outcomes |-> outcomes]
    ELSE LET r == write(k, buf, Resp(script, i))
             seen == Append(outcomes, Outcome(r))
         IN  CASE r.ok /\ r.n = 0 ->
                    [ok |-> FALSE, err |-> WriteZero, snk |-> r.snk,
                     outcomes |-> seen]
               [] r.ok /\ r.n > 0 ->
                    write_all_from(r.snk, SubSeq(buf, r.n + 1, Len(buf)),
                                   script, i + 1, seen)
               [] ~r.ok /\ r.err.kind = "Interrupted" ->
                    write_all_from(k, buf, script, i + 1, seen)
               [] OTHER ->
                    [ok |-> FALSE, err |-> r.err, snk |-> r.snk,
                     outcomes |-> seen]

write_all(k, buf, script) == write_all_from(k, buf, script, 1, <<>>)

(***************************************************************************)
(* EndianWriteExt::write_as                                                *)
(***************************************************************************)
\* write_as with one call of write whose count is not looked at
write_as_unchecked(h, k, e, v, script) ==
    LET buf == to_bytes(h, e, v)
        r == write(k, buf, Resp(script, 1))
    IN  [ok |-> r.ok, err |-> r.err, snk |-> r.snk,
         outcomes |-> <<Outcome(r)>>]

\* write_as with one call of write, failing when it accepts a part only
write_as_single(h, k, e, v, script) ==
    LET buf == to_bytes(h, e, v)
        r == write(k, buf, Resp(script, 1))
    IN  IF r.ok /\ r.n # Len(buf)
        THEN [ok |-> FALSE, err |-> WriteZero, snk |-> r.snk,
              outcomes |-> <<Outcome(r)>>]
        ELSE [ok |-> r.ok, err |-> r.err, snk |-> r.snk,
              outcomes |-> <<Outcome(r)>>]

\* write_as that writes nothing when the sink has no room for the value
write_as_atomic(h, k, e, v, script) ==
    LET buf == to_bytes(h, e, v)
    IN  IF k.cap < Len(buf)
        THEN [ok |-> FALSE, err |-> WriteZero, snk |-> k,
              outcomes |-> <<[ok |-> TRUE, n |-> 0, err |-> NoErr]>>]
        ELSE write_all(k, buf, script)

write_as(h, k, e, v, script) ==
    LET buf == to_bytes(h, e, v)
    IN  write_all(k, buf, script)

\* run_test!: the value written for a type is the one whose big-endian
\* bytes are the first bytes of the test's array
WriteValues(t) ==
    {[ty |-> t, bits |-> Reverse(SubSeq(expected, 1, typesize(t)))]}

(***************************************************************************)
(* The calls a client makes on one source, and on one sink.  last is the    *)
(* call that has just returned, with what it was given and what it         *)
(* answered; the client takes the result before it calls again.             *)
(***************************************************************************)
\* bytes the calls of the collaborator moved between the stream and the buffer
RECURSIVE Moved(_)
Moved(outcomes) ==
    IF outcomes = <<>> THEN 0
    ELSE outcomes[Len(outcomes)].n
         + Moved(SubSeq(outcomes, 1, Len(outcomes) - 1))

\* what is kept of a call once its result is taken
Kept(c) == [op |-> c.op, ok |-> c.ok, moved |-> c.moved, end |-> c.end]

ReadAs ==
    /\ last = NoCall
    /\ \E e \in ByteOrders, t \in Types, script \in Scripts :
         LET r == read_as(host, src, e, t, script)
         IN  /\ src' = r.src
             /\ last' = [op |-> "read_as", e |-> e, t |-> t, ok |-> r.ok,
                         err |-> r.err, val |-> r.val, buf |-> <<>>,
                         outcomes |-> r.outcomes, start |-> src.pos,
                         room |-> src.len - src.pos, end |-> r.src.pos,
                         moved |-> Moved(r.outcomes)]
             /\ allOk' = [allOk EXCEPT !.read_as = @ /\ r.ok]
             /\ sumOk' = [sumOk EXCEPT !.read_as =
                             IF allOk.read_as /\ r.ok
                             THEN @ + typesize(t) ELSE 0]
    /\ UNCHANGED <<host, codec, snk, prevRead, writes>>

WriteAs ==
    /\ last = NoCall
    /\ writes < MaxWrites
    /\ \E e \in ByteOrders, t \in Types, script \in Scripts :
         \E v \in WriteValues(t) :
           LET r == write_as(host, snk, e, v, script)
           IN  /\ snk' = r.snk
               /\ last' = [op |-> "write_as", e |-> e, t |-> t, ok |-> r.ok,
                           err |-> r.err, val |-> v,
                           buf |-> to_bytes(host, e, v),
                           outcomes |-> r.outcomes, start |-> Len(snk.out),
                           room |-> snk.cap, end |-> Len(r.snk.out),
                           moved |-> Moved(r.outcomes)]
               /\ allOk' = [allOk EXCEPT !.write_as = @ /\ r.ok]
               /\ sumOk' = [sumOk EXCEPT !.write_as =
                               IF allOk.write_as /\ r.ok
                               THEN @ + typesize(t) ELSE 0]
    /\ writes' = writes + 1
    /\ UNCHANGED <<host, codec, src, prevRead>>

\* .unwrap() / .unwrap_err(): the client takes the result of the call
TakeResult ==
    /\ last # NoCall
    /\ prevRead' = IF last.op = "read_as" THEN Kept(last) ELSE prevRead
    /\ last' = NoCall
    /\ UNCHANGED <<host, codec, src, snk, sumOk, allOk, writes>>

(***************************************************************************)
(* A client holds a source and a sink.  It starts either with a source     *)
(* that holds SrcLen bytes and a sink with no room, or with a source that  *)
(* holds nothing and a sink with room for SinkCap bytes.                   *)
(***************************************************************************)
Init ==
    /\ host \in Hosts
    /\ codec = Idle
    /\ \/ /\ src = [pos |-> 0, len |-> SrcLen]
          /\ snk = [out |-> <<>>, cap |-> 0]
       \/ /\ src = [pos |-> 0, len |-> 0]
          /\ snk = [out |-> <<>>, cap |-> SinkCap]
    /\ last = NoCall
    /\ prevRead = NoCall
    /\ sumOk = [read_as |-> 0, write_as |-> 0]
    /\ allOk = [read_as |-> TRUE, write_as |-> TRUE]
    /\ writes = 0

Next == ReadAs \/ WriteAs \/ TakeResult

Spec == Init /\ [][Next]_vars

(***************************************************************************)
(* The calls on a source alone, and on a sink alone that starts with room  *)
(* for any number of bytes up to SinkCap.                                  *)
(***************************************************************************)
InitRead ==
    /\ host \in Hosts
    /\ codec = Idle
    /\ src = [pos |-> 0, len |-> SrcLen]
    /\ snk = [out |-> <<>>, cap |-> 0]
    /\ last = NoCall
    /\ prevRead = NoCall
    /\ sumOk = [read_as |-> 0, write_as |-> 0]
    /\ allOk = [read_as |-> TRUE, write_as |-> TRUE]
    /\ writes = 0

InitWrite ==
    /\ host \in Hosts
    /\ codec = Idle
    /\ src = [pos |-> 0, len |-> 0]
    /\ \E c \in 0..SinkCap : snk = [out |-> <<>>, cap |-> c]
    /\ last = NoCall
    /\ prevRead = NoCall
    /\ sumOk = [read_as |-> 0, write_as |-> 0]
    /\ allOk = [read_as |-> TRUE, write_as |-> TRUE]
    /\ writes = 0

NextRead == ReadAs \/ TakeResult

NextWrite == WriteAs \/ TakeResult

SpecRead == InitRead /\ [][NextRead]_vars

SpecWrite == InitWrite /\ [][NextWrite]_vars

(***************************************************************************)
(* What the streams' claims are stated with.                               *)
(***************************************************************************)
Width == typesize(last.t)

IsRead == last # NoCall /\ last.op = "read_as"

IsWrite == last # NoCall /\ last.op = "write_as"

\* the call of the collaborator that answered with a count
Counted(o) == o.ok

\* the call of the collaborator that failed
Failed(o) == ~o.ok

\* C4: read_as issues exactly one read; when that read returns fewer bytes
\* than the type's width (none included), read_as returns the short-read
\* error and no value and reads no further, whatever the source still holds.
C4_ShortRead ==
    IsRead =>
        /\ Len(last.outcomes) = 1
        /\ (Counted(last.outcomes[1]) /\ last.outcomes[1].n < Width) =>
               /\ ~last.ok
               /\ last.err = ShortRead
               /\ last.val = NoVal
               /\ last.end = last.start + last.outcomes[1].n

C4_Witness ==
    /\ IsRead
    /\ last.t = "u32"
    /\ last.room >= 4
    /\ Counted(last.outcomes[1])
    /\ last.outcomes[1].n = 1
    /\ Len(last.outcomes) = 1
    /\ ~last.ok
    /\ last.err = ShortRead

\* C5: write_as of a type of width n to a sink with room for k < n bytes in
\* all returns an error, never Ok.
C5_ShortWrite ==
    (IsWrite /\ last.room < Width) => ~last.ok

C5_Witness ==
    /\ IsWrite
    /\ last.t = "f32"
    /\ last.room = 3
    /\ ~last.ok
    /\ last.err = WriteZero

\* C6 as it is claimed: every failure of a read or a write of the
\* collaborator, an interrupted call included, is the error read_as or
\* write_as returns.
C6_Original ==
    last # NoCall =>
        \A i \in 1..Len(last.outcomes) :
            Failed(last.outcomes[i]) =>
                (~last.ok /\ last.err = last.outcomes[i].err)

\* C6, amended: a failure of the source's read, of any kind, and a failure
\* of the sink's write of a kind other than Interrupted, is the error
\* returned, and no call follows it; after an interrupted write the write
\* is called again, and write_as does not return that interruption.
C6_Propagation ==
    /\ IsRead =>
           \A i \in 1..Len(last.outcomes) :
               Failed(last.outcomes[i]) =>
                   /\ ~last.ok
                   /\ last.err = last.outcomes[i].err
                   /\ i = Len(last.outcomes)
    /\ (IsRead /\ ~last.ok /\ last.err # ShortRead) =>
           last.err = last.outcomes[Len(last.outcomes)].err
    /\ IsWrite =>
           \A i \in 1..Len(last.outcomes) :
               Failed(last.outcomes[i]) =>
                   IF last.outcomes[i].err.kind = "Interrupted"
                   THEN i < Len(last.outcomes)
                   ELSE /\ ~last.ok
                        /\ last.err = last.outcomes[i].err
                        /\ i = Len(last.outcomes)
    /\ (IsWrite /\ ~last.ok /\ last.err # WriteZero) =>
           /\ last.err = last.outcomes[Len(last.outcomes)].err
           /\ last.err.kind # "Interrupted"

C6_Witness ==
    /\ IsWrite
    /\ last.t = "u16"
    /\ Len(last.outcomes) = 2
    /\ last.outcomes[1] = [ok |-> FALSE, n |-> 0, err |-> Interrupted]
    /\ last.outcomes[2] = [ok |-> TRUE, n |-> 2, err |-> NoErr]
    /\ last.ok

\* C7: a successful read_as or write_as of a type of width n consumes or
\* appends exactly n bytes; after calls that all succeeded the position is
\* the sum of their widths, and the last read decoded the n bytes that
\* follow those the earlier calls consumed.
C7_ExactWidth ==
    /\ (IsRead /\ last.ok) =>
           /\ last.moved = Width
           /\ last.end = last.start + Width
           /\ src.pos = last.end
           /\ last.val =
                  from_bytes(host, last.e, last.t,
                             SubSeq(srcData, last.start + 1,
                                    last.start + Width))
    /\ (IsWrite /\ last.ok) =>
           /\ last.moved = Width
           /\ Len(last.buf) = Width
           /\ last.end = last.start + Width
           /\ Len(snk.out) = last.end
           /\ SubSeq(snk.out, last.start + 1, last.end) =
                  to_bytes(host, last.e, last.val)
    /\ allOk.read_as => src.pos = sumOk.read_as
    /\ allOk.write_as => Len(snk.out) = sumOk.write_as
    /\ (IsRead /\ allOk.read_as) =>
           last.val =
               from_bytes(host, last.e, last.t,
                          SubSeq(srcData, sumOk.read_as - Width + 1,
                                 sumOk.read_as))

C7_Witness ==
    /\ IsRead
    /\ allOk.read_as
    /\ last.t = "i32"
    /\ last.e = LittleEndian
    /\ last.start = 3
    /\ sumOk.read_as = 7
    /\ src.pos = 7
    /\ last.val.bits = <<68, 85, 102, 119>>

\* C8 as it is claimed: write_as issues exactly one write, and fails when
\* that write accepts a part of the buffer only.
C8_Original ==
    IsWrite =>
        /\ Len(last.outcomes) = 1
        /\ (Counted(last.outcomes[1]) /\ last.outcomes[1].n < Width) =>
               ~last.ok

\* C8, amended: write_as issues one write_all, which (as io::Write provides
\* it) calls write until the
\* buffer is written: after a write that accepts a part, or is interrupted,
\* it calls write again for the bytes that remain; it returns Ok when all n
\* bytes are accepted, and the short-write error only when a write accepts
\* no byte.
C8_WriteAll ==
    IsWrite =>
        LET o == last.outcomes
            m == Len(o)
        IN  /\ m >= 1
            /\ \A i \in 1..(m - 1) :
                   \/ Counted(o[i]) /\ o[i].n > 0
                   \/ Failed(o[i]) /\ o[i].err = Interrupted
            /\ \A i \in 1..m :
                   (Counted(o[i]) /\ o[i].n > 0
                    /\ Moved(SubSeq(o, 1, i)) < Width) => i < m
            /\ last.ok <=> last.moved = Width
            /\ (~last.ok /\ last.err = WriteZero) <=>
                   (Counted(o[m]) /\ o[m].n = 0)
            /\ snk.out = SubSeq(snk.out, 1, last.start)
                             \o SubSeq(last.buf, 1, last.moved)

C8_Witness ==
    /\ IsWrite
    /\ last.t = "u16"
    /\ last.e = BigEndian
    /\ last.outcomes = <<[ok |-> TRUE, n |-> 1, err |-> NoErr],
                         [ok |-> TRUE, n |-> 1, err |-> NoErr]>>
    /\ last.ok
    /\ snk.out = <<17, 34>>

\* C9: a read_as that fails with a short read has consumed the m < n bytes
\* its read returned: the source stands after them, and the read_as that
\* follows starts there and decodes the bytes after them.
C9_ShortReadConsumes ==
    /\ (IsRead /\ ~last.ok /\ last.err = ShortRead) =>
           /\ last.moved = last.outcomes[1].n
           /\ last.moved < Width
           /\ last.end = last.start + last.moved
           /\ src.pos = last.end
    /\ (IsRead /\ prevRead # NoCall) =>
           /\ last.start = prevRead.end
           /\ last.ok =>
                  last.val =
                      from_bytes(host, last.e, last.t,
                                 SubSeq(srcData, prevRead.end + 1,
                                        prevRead.end + Width))

C9_Witness ==
    /\ IsRead
    /\ prevRead # NoCall
    /\ ~prevRead.ok
    /\ prevRead.moved = 1
    /\ prevRead.end = 1
    /\ last.ok
    /\ last.t = "u16"
    /\ last.e = BigEndian
    /\ last.start = 1
    /\ IntValue(last.val) = 8755

\* C10: a write_as that fails on a sink with room for k < n bytes, whose
\* writes do not fail, is not atomic: when it returns the error the first k
\* bytes of the value's encoding are in the sink and the sink has no room.
C10_PartialWrite ==
    (/\ IsWrite
     /\ last.room < Width
     /\ \A i \in 1..Len(last.outcomes) : Counted(last.outcomes[i])) =>
        /\ ~last.ok
        /\ last.err = WriteZero
        /\ snk.cap = 0
        /\ Len(snk.out) = last.start + last.room
        /\ SubSeq(snk.out, last.start + 1, last.start + last.room) =
               SubSeq(last.buf, 1, last.room)
        /\ SubSeq(snk.out, 1, last.start) \o SubSeq(last.buf, 1, last.room)
               = snk.out

C10_Witness ==
    /\ IsWrite
    /\ last.t = "u32"
    /\ last.e = LittleEndian
    /\ last.start = 0
    /\ last.room = 3
    /\ ~last.ok
    /\ snk.out = <<68, 51, 34>>
    /\ snk.cap = 0

=============================================================================
